---------------------------- MODULE Spec2Model ----------------------------
(***************************************************************************)
(* A model of the two notebooks of python4geosciences:                     *)
(*   - the NetCDF notebook (src/unnamed/part_000): opening datasets,       *)
(*     metadata queries, indexing, the scatter-to-grid interpolation loop, *)
(*     the writer of output/foo.nc that follows it as a comment, the time  *)
(*     searches on the monthly SST axis;                                   *)
(*   - the maps notebook (src/materials/maps.ipynb): the hurricane-track   *)
(*     loop, the cartopy features, the coordinates of College Station.     *)
(* Each part has its own specification over the shared variables; the      *)
(* variables of the other parts stay at their idle values.                 *)
(***************************************************************************)
EXTENDS Integers, Sequences, FiniteSets, TLC

VARIABLES
    \* ---- interpolation cell (part_000, lines 407-434) ----
    ipc,        \* position in the cell: "off", "inject", "loop", "done", "raised"
    idx,        \* idx[:Nbad], the head of the shuffled flat positions
    fdata,      \* fdata[t][p] = TRUE when the value at time t, point p is nan
    fgrid,      \* fgrid[t]: Unassigned (np.ma.empty) or the interpolated slice
    n,          \* the loop variable of `for n in range(Ntimes)` (next value)
    visited,    \* history: the values n has taken, in order
    \* ---- hurricane-track cell (maps.ipynb, lines 317-336) ----
    tpc,        \* "off", "start", "head", "storms", "done", "propagated"
    nDecades,   \* len(hurricanes.Document.Folder.Folder), -1 when it is missing
    decade,     \* the loop variable of the outer for (next value)
    nStorms,    \* len(doc.Document.Placemark) of the decade being iterated
    storm,      \* the loop variable of the inner for (next value)
    tracks,     \* the list of track arrays, each a sequence of rows
    origin,     \* history: for each track, the decade, storm and text it came from
    caught,     \* history: the failures raised in the try
    locsRead,   \* history: the number of locations read from the file so far
    heads,      \* history: the decades entered, each with its number of storms
    \* ---- SST arrays and time searches (part_000, lines 245-271, 579-796) ----
    spc,        \* position: "off", "extract", "search", "plot", "nearest", "end"
    date,       \* the requested date <<year, month, day>>
    lon,        \* lon = nc['lon'][:]
    lat,        \* lat = nc['lat'][:]
    sst,        \* sst = nc['sst'][0], later nc['sst'][tind]
    tindSet,    \* np.where(time == date)[0], as the set of its indices
    tind,       \* np.where(time == date)[0][0], -1 while there is none
    sel,        \* the index .sel(time=date, method='nearest') selects, -1 before
    \* ---- the run of both notebooks, statement by statement ----
    pc,         \* pc[nb]: the next statement of notebook nb
    status,     \* status[nb]: "off", "running", "failed" or "finished"
    files,      \* files[path]: "absent", "original" or "written"
    files0,     \* history: files before the run
    handles,    \* the open datasets and file handles
    binding,    \* binding[nb][name]: the handle a name of the kernel refers to
    loaded,     \* the variables whose data has been read: <<handle, variable>>
    \* ---- the Mercator map and College Station (maps.ipynb, 179-244) ----
    cpc,        \* position: "off", "map", "lat", "lon", "end"
    dms,        \* the position given in degrees, minutes, seconds (N and W)
    extent,     \* the extent of the map: <<west, east, south, north>>
    lat_cll,    \* latitude in decimal degrees, as a multiple of 1/3600 degree
    lon_cll,    \* longitude in decimal degrees, as a multiple of 1/3600 degree
    \* ---- the writer of output/foo.nc (part_000, lines 436-461) ----
    wpc,        \* the next statement of the writer, 0 before it, -1 once it raised
    wopen,      \* the dataset is open for writing
    wdims,      \* wdims[name]: the dimension, NoDim while it is not created
    wvars,      \* wvars[name]: the variable, NoVar while it is not created
    wlog        \* history: the statements executed, in order

interpVars == <<ipc, idx, fdata, fgrid, n, visited>>

trackVars ==
    <<tpc, nDecades, decade, nStorms, storm, tracks, origin, caught, locsRead,
      heads>>

sstVars == <<spc, date, lon, lat, sst, tindSet, tind, sel>>

runVars == <<pc, status, files, files0, handles, binding, loaded>>

coordVars == <<cpc, dms, extent, lat_cll, lon_cll>>

writerVars == <<wpc, wopen, wdims, wvars, wlog>>

vars == <<interpVars, trackVars, sstVars, runVars, coordVars, writerVars>>

notInterp == <<trackVars, sstVars, runVars, coordVars, writerVars>>
notTracks == <<interpVars, sstVars, runVars, coordVars, writerVars>>
notSst == <<interpVars, trackVars, runVars, coordVars, writerVars>>
notRun == <<interpVars, trackVars, sstVars, coordVars, writerVars>>
notCoords == <<interpVars, trackVars, sstVars, runVars, writerVars>>
notWriter == <<interpVars, trackVars, sstVars, runVars, coordVars>>

(***************************************************************************)
(* The interpolation cell.                                                 *)
(***************************************************************************)

\* Sizes of the synthetic data set, scaled down (the cell sets 20, 1000, 200).
Ntimes == 3
Ndatapoints == 4
Nbad == 2

\* np.mgrid[0:1:60j, 0:1:50j]: 60 rows (y) by 50 columns (x).
GridRows == 60
GridCols == 50

Times == 0 .. Ntimes - 1
Points == 0 .. Ndatapoints - 1
FlatSize == Ntimes * Ndatapoints

Unassigned == [assigned |-> FALSE]

\* fdata.flat[p]: row-major position p is (p \div Ndatapoints, p % Ndatapoints).
FlatTime(p) == p \div Ndatapoints
FlatPoint(p) == p % Ndatapoints

\* The sizes the cell sets (lines 409-411).
CellNdatapoints == 1000
CellNtimes == 20
CellNbad == 200

\* A plausible slip: Nbad positions drawn independently (with replacement,
\* as np.random.randint would), which can repeat a position.
ShuffleHeadsWithRepeats == [1 .. Nbad -> 0 .. FlatSize - 1]

\* idx[:Nbad] after np.random.shuffle(idx) of arange(fdata.size): the first
\* Nbad entries of a permutation, i.e. any injective sequence of positions.
ShuffleHeads ==
    { s \in [1 .. Nbad -> 0 .. FlatSize - 1] :
        \A i, j \in 1 .. Nbad : i # j => s[i] # s[j] }

\* fdata.flat[idx[:Nbad]] = np.nan
SetNan(f, head) ==
    [t \in Times |-> [p \in Points |->
        f[t][p] \/ \E i \in 1 .. Len(head) :
                      FlatTime(head[i]) = t /\ FlatPoint(head[i]) = p]]

\* A plausible slip: the scattered points are used without masking.
IgoodUnfiltered(row) == Points

\* igood = ~np.isnan(fdata[n])
Igood(row) == { p \in Points : ~row[p] }

\* tri.Triangulation(xdata[igood], ydata[igood]) can succeed only with at
\* least three points; with three or more it still fails on degenerate
\* geometry (the coordinates are random and are not modelled).
TriCanSucceed(good) == Cardinality(good) >= 3

\* interp(xgrid, ygrid): one value per grid node, built from the points `good`.
Interpolated(good) ==
    [assigned |-> TRUE, points |-> good, shape |-> <<GridRows, GridCols>>]

InterpIdle ==
    /\ ipc = "off"
    /\ idx = <<>>
    /\ fdata = [t \in Times |-> [p \in Points |-> FALSE]]
    /\ fgrid = [t \in Times |-> Unassigned]
    /\ n = 0
    /\ visited = <<>>

InterpInit ==
    /\ ipc = "inject"
    /\ idx = <<>>
    /\ fdata = [t \in Times |-> [p \in Points |-> FALSE]]
    /\ fgrid = [t \in Times |-> Unassigned]
    /\ n = 0
    /\ visited = <<>>

\* Lines 422-427: shuffle, inject the nans, allocate fgrid.
Inject ==
    /\ ipc = "inject"
    /\ \E head \in ShuffleHeads :
          /\ idx' = head
          /\ fdata' = SetNan(fdata, head)
    /\ ipc' = "loop"
    /\ UNCHANGED <<fgrid, n, visited>>
    /\ UNCHANGED notInterp

\* Lines 430-434: one iteration of the loop that returns normally.
InterpStep ==
    /\ ipc = "loop"
    /\ n < Ntimes
    /\ LET igood == Igood(fdata[n]) IN
          /\ TriCanSucceed(igood)
          /\ fgrid' = [fgrid EXCEPT ![n] = Interpolated(igood)]
    /\ visited' = Append(visited, n)
    /\ n' = n + 1
    /\ UNCHANGED <<ipc, idx, fdata>>
    /\ UNCHANGED notInterp

\* A loop that swallows the failure (try/except: pass) and goes on.
InterpRaiseSwallowed ==
    /\ ipc = "loop"
    /\ n < Ntimes
    /\ visited' = Append(visited, n)
    /\ n' = n + 1
    /\ UNCHANGED <<ipc, idx, fdata, fgrid>>
    /\ UNCHANGED notInterp

\* Lines 432-434: the triangulation or the interpolation raises; nothing
\* catches it, the cell stops with n at the failing step.
InterpRaise ==
    /\ ipc = "loop"
    /\ n < Ntimes
    /\ visited' = Append(visited, n)
    /\ ipc' = "raised"
    /\ UNCHANGED <<idx, fdata, fgrid, n>>
    /\ UNCHANGED notInterp

\* Line 430: range(Ntimes) is exhausted.
InterpExit ==
    /\ ipc = "loop"
    /\ n = Ntimes
    /\ ipc' = "done"
    /\ UNCHANGED <<idx, fdata, fgrid, n, visited>>
    /\ UNCHANGED notInterp

InterpNext == Inject \/ InterpStep \/ InterpRaise \/ InterpExit

(***************************************************************************)
(* The hurricane-track cell.                                               *)
(***************************************************************************)

\* Bounds on the KML file: folders (decades), placemarks (storms) of a
\* folder, and locations in the whole file.
MaxDecades == 2
MaxStorms == 2
MaxLocations == 2

\* np.fromstring(location, sep=','): the numbers of one location.  A KML
\* location is lon,lat or lon,lat,alt; a malformed one yields fewer numbers.
CompCounts == 0 .. 3

\* The coordinate text of a storm, as the list of its whitespace-separated
\* locations, each the list of its comma-separated numbers.  The numbers are
\* distinct within a text: component k of location j is 10*j + k.
TextOf(counts) ==
    [j \in 1 .. Len(counts) |-> [k \in 1 .. counts[j] |-> 10 * j + k]]

SeqsUpTo(S, m) == UNION { [1 .. k -> S] : k \in 0 .. m }

\* What a Placemark can hold: no LineString/coordinates at all, or a text.
NoLineString == [line |-> FALSE]
Placemarks(m) ==
    {NoLineString} \cup
    { [line |-> TRUE, text |-> TextOf(c)] : c \in SeqsUpTo(CompCounts, m) }

\* np.array(track): a list of equally long rows is a 2-D array; an empty list
\* is a 1-D array of length 0; rows of different lengths give a 1-D array of
\* objects (or an error, in later numpy versions).
Ragged(track) ==
    \E i, j \in 1 .. Len(track) : Len(track[i]) # Len(track[j])

\* A plausible slip: the empty list too is taken as two-dimensional (as
\* np.atleast_2d or a reshape(-1, 3) would make it).
NpArrayNdimEmptyAs2D(track) ==
    IF Ragged(track) THEN 1 ELSE 2

NpArrayNdim(track) ==
    IF Len(track) = 0 \/ Ragged(track) THEN 1 ELSE 2

\* arr[:, :2]: every row, its first two columns.
FirstTwo(row) == [k \in 1 .. (IF Len(row) < 2 THEN Len(row) ELSE 2) |-> row[k]]
SliceTwoColumns(track) == [i \in 1 .. Len(track) |-> FirstTwo(track[i])]

\* Lines 330-334 succeed on this placemark: the text is there and the slice
\* with two indices applies to a 2-D array.
StormParses(pm) == pm.line /\ NpArrayNdim(pm.text) = 2

\* len(track_text.split()), -1 when there is no text.
Locations(pm) == IF pm.line THEN Len(pm.text) ELSE -1

\* Why lines 330-334 raise on this placemark.
StormError(pm) ==
    IF ~pm.line THEN "AttributeError" ELSE "IndexError"

TracksIdle ==
    /\ tpc = "off"
    /\ nDecades = 0
    /\ decade = 0
    /\ nStorms = 0
    /\ storm = 0
    /\ tracks = <<>>
    /\ origin = <<>>
    /\ caught = <<>>
    /\ locsRead = 0
    /\ heads = <<>>

TracksInit ==
    /\ tpc = "start"
    /\ nDecades \in -1 .. MaxDecades
    /\ decade = 0
    /\ nStorms = 0
    /\ storm = 0
    /\ tracks = <<>>
    /\ origin = <<>>
    /\ caught = <<>>
    /\ locsRead = 0
    /\ heads = <<>>

\* Lines 325-326: tracks = [] and the evaluation of
\* range(len(hurricanes.Document.Folder.Folder)), which is outside any try.
TracksStart ==
    /\ tpc = "start"
    /\ tracks' = <<>>
    /\ tpc' = IF nDecades < 0 THEN "propagated" ELSE "head"
    /\ UNCHANGED <<nDecades, decade, nStorms, storm, origin, caught, locsRead>>
    /\ UNCHANGED heads
    /\ UNCHANGED notTracks

\* Lines 326-329: the next decade; doc is looked up and, inside the try,
\* len(doc.Document.Placemark) gives the number of storms (at least one: a
\* folder without placemarks raises, see DecadeNoPlacemarks).
DecadeHead ==
    /\ tpc = "head"
    /\ decade < nDecades
    /\ nStorms' \in 1 .. MaxStorms
    /\ storm' = 0
    /\ tpc' = "storms"
    /\ heads' = Append(heads, [decade |-> decade, storms |-> nStorms'])
    /\ UNCHANGED <<nDecades, decade, tracks, origin, caught, locsRead>>
    /\ UNCHANGED notTracks

\* Lines 328-329 and 335-336: doc.Document.Placemark is missing; the
\* AttributeError is raised inside the try and swallowed.
DecadeNoPlacemarks ==
    /\ tpc = "head"
    /\ decade < nDecades
    /\ caught' = Append(caught,
                    [decade |-> decade, storm |-> -1, error |-> "AttributeError"])
    /\ decade' = decade + 1
    /\ heads' = Append(heads, [decade |-> decade, storms |-> 0])
    /\ UNCHANGED <<tpc, nDecades, nStorms, storm, tracks, origin, locsRead>>
    /\ UNCHANGED notTracks

\* A plausible slip: the new track is put at the front, tracks.insert(0, ..).
StormPrepend ==
    /\ tpc = "storms"
    /\ storm < nStorms
    /\ \E pm \in Placemarks(MaxLocations - locsRead) :
          /\ StormParses(pm)
          /\ tracks' = <<SliceTwoColumns(pm.text)>> \o tracks
          /\ origin' = <<[decade |-> decade, storm |-> storm, text |-> pm.text]>>
                           \o origin
          /\ locsRead' = locsRead + Len(pm.text)
    /\ storm' = storm + 1
    /\ UNCHANGED <<tpc, nDecades, decade, nStorms, caught>>
    /\ UNCHANGED heads
    /\ UNCHANGED notTracks

\* Lines 329-334: one storm whose track is parsed and appended.
StormAppend ==
    /\ tpc = "storms"
    /\ storm < nStorms
    /\ \E pm \in Placemarks(MaxLocations - locsRead) :
          /\ StormParses(pm)
          /\ tracks' = Append(tracks, SliceTwoColumns(pm.text))
          /\ origin' = Append(origin,
                          [decade |-> decade, storm |-> storm, text |-> pm.text])
          /\ locsRead' = locsRead + Len(pm.text)
    /\ storm' = storm + 1
    /\ UNCHANGED <<tpc, nDecades, decade, nStorms, caught>>
    /\ UNCHANGED heads
    /\ UNCHANGED notTracks

\* The same failure without the try/except around the storms.
StormFailPropagates ==
    /\ tpc = "storms"
    /\ storm < nStorms
    /\ \E pm \in Placemarks(MaxLocations - locsRead) :
          /\ ~StormParses(pm)
          /\ caught' = Append(caught,
                [decade |-> decade, storm |-> storm, error |-> StormError(pm),
                 locations |-> Locations(pm)])
          /\ locsRead' = locsRead + (IF pm.line THEN Len(pm.text) ELSE 0)
    /\ tpc' = "propagated"
    /\ UNCHANGED <<nDecades, decade, nStorms, storm, tracks, origin>>
    /\ UNCHANGED heads
    /\ UNCHANGED notTracks

\* A try/except placed inside the storm loop: the failing storm is skipped
\* and the next storm of the same decade is attempted.
StormFailSkipsStorm ==
    /\ tpc = "storms"
    /\ storm < nStorms
    /\ \E pm \in Placemarks(MaxLocations - locsRead) :
          /\ ~StormParses(pm)
          /\ caught' = Append(caught,
                [decade |-> decade, storm |-> storm, error |-> StormError(pm),
                 locations |-> Locations(pm)])
          /\ locsRead' = locsRead + (IF pm.line THEN Len(pm.text) ELSE 0)
    /\ storm' = storm + 1
    /\ UNCHANGED <<tpc, nDecades, decade, nStorms, tracks, origin>>
    /\ UNCHANGED heads
    /\ UNCHANGED notTracks

\* Lines 330-336: one storm on which lines 330-334 raise; the bare except
\* swallows the failure, which ends the storms of this decade.
StormFail ==
    /\ tpc = "storms"
    /\ storm < nStorms
    /\ \E pm \in Placemarks(MaxLocations - locsRead) :
          /\ ~StormParses(pm)
          /\ caught' = Append(caught,
                [decade |-> decade, storm |-> storm, error |-> StormError(pm),
                 locations |-> Locations(pm)])
          /\ locsRead' = locsRead + (IF pm.line THEN Len(pm.text) ELSE 0)
    /\ decade' = decade + 1
    /\ tpc' = "head"
    /\ UNCHANGED <<nDecades, nStorms, storm, tracks, origin>>
    /\ UNCHANGED heads
    /\ UNCHANGED notTracks

\* Line 329: the storms of the decade are exhausted.
StormsExhausted ==
    /\ tpc = "storms"
    /\ storm = nStorms
    /\ decade' = decade + 1
    /\ tpc' = "head"
    /\ UNCHANGED <<nDecades, nStorms, storm, tracks, origin, caught, locsRead>>
    /\ UNCHANGED heads
    /\ UNCHANGED notTracks

\* A plausible slip: the range stops one short, range(len(..) - 1).
TracksExitOneShort ==
    /\ tpc = "head"
    /\ decade >= nDecades - 1
    /\ tpc' = "done"
    /\ UNCHANGED <<nDecades, decade, nStorms, storm, tracks, origin, caught,
                   locsRead>>
    /\ UNCHANGED heads
    /\ UNCHANGED notTracks

\* Line 326: the decades are exhausted.
TracksExit ==
    /\ tpc = "head"
    /\ decade = nDecades
    /\ tpc' = "done"
    /\ UNCHANGED <<nDecades, decade, nStorms, storm, tracks, origin, caught,
                   locsRead>>
    /\ UNCHANGED heads
    /\ UNCHANGED notTracks

TracksNext ==
    \/ TracksStart
    \/ DecadeHead
    \/ DecadeNoPlacemarks
    \/ StormAppend
    \/ StormFail
    \/ StormsExhausted
    \/ TracksExit

(***************************************************************************)
(* The SST file: indexing its variables, and the searches on its time axis.*)
(***************************************************************************)

\* The dimensions of sst.mnmean.v4.nc (the ncdump listing).
NLon == 180
NLat == 89
NTime == 1946

\* time:actual_range, in days since 1800-1-1 00:00:00.
TimeFirst == 19723
TimeLast == 78923

\* The requested dates are the days of MaxYears calendar years from 1952 on.
MaxYears == 3

VarShape(v) ==
    CASE v = "sst" -> <<NTime, NLat, NLon>>
      [] v = "lat" -> <<NLat>>
      [] v = "lon" -> <<NLon>>
      [] v = "time" -> <<NTime>>

\* The items of an index expression: an integer, or the full slice `:`.
All == [all |-> TRUE]
At(i) == [all |-> FALSE, i |-> i]

\* A plausible slip: the missing indices are taken to be the leading ones.
PadKeyFront(key, ndim) ==
    [d \in 1 .. ndim |->
        IF d <= ndim - Len(key) THEN All ELSE key[d - (ndim - Len(key))]]

\* An index expression with fewer items than dimensions selects everything
\* along the remaining, trailing dimensions.
PadKey(key, ndim) ==
    [d \in 1 .. ndim |-> IF d <= Len(key) THEN key[d] ELSE All]

\* A negative integer counts from the end of its dimension.
NormItem(item, len) ==
    IF item.all THEN item
    ELSE IF item.i < 0 THEN At(item.i + len) ELSE item

\* The dimensions an expanded key keeps (those it slices), in order.
RECURSIVE KeptDims(_, _)
KeptDims(full, d) ==
    IF d > Len(full) THEN <<>>
    ELSE IF full[d].all THEN <<d>> \o KeptDims(full, d + 1)
         ELSE KeptDims(full, d + 1)

\* variable[key]: the array read from the file, as its shape and, for each
\* dimension of the variable, the index taken or the full slice.
GetItem(shape, key) ==
    LET padded == PadKey(key, Len(shape))
        full == [d \in 1 .. Len(shape) |-> NormItem(padded[d], shape[d])]
        kept == KeptDims(full, 1)
    IN [shape |-> [k \in 1 .. Len(kept) |-> shape[kept[k]]],
        src |-> full]

\* The position in the variable of element r of an array read by GetItem.
Elem(arr, r) ==
    LET kept == KeptDims(arr.src, 1) IN
    [d \in 1 .. Len(arr.src) |->
        IF arr.src[d].all
        THEN r[CHOOSE k \in 1 .. Len(kept) : kept[k] = d]
        ELSE arr.src[d].i]

NoArray == [shape |-> <<>>, src |-> <<>>]

\* ---- the calendar ----

IsLeap(y) == y % 4 = 0 /\ (y % 100 # 0 \/ y % 400 = 0)

DaysInMonth(y, m) ==
    IF m = 2 THEN (IF IsLeap(y) THEN 29 ELSE 28)
    ELSE IF m \in {4, 6, 9, 11} THEN 30 ELSE 31

RECURSIVE DaysBeforeMonth(_, _)
DaysBeforeMonth(y, m) ==
    IF m = 1 THEN 0 ELSE DaysBeforeMonth(y, m - 1) + DaysInMonth(y, m - 1)

\* The leap years up to and including year y.
LeapsThrough(y) == (y \div 4) - (y \div 100) + (y \div 400)

\* date2num with units 'days since 1800-1-1 00:00:00'.
Date2Num(d) ==
    365 * (d[1] - 1800) + (LeapsThrough(d[1] - 1) - LeapsThrough(1799))
      + DaysBeforeMonth(d[1], d[2]) + (d[3] - 1)

\* A plausible slip: every fourth year is a leap year (no century rule).
Num2DateJulian(days) ==
    LET z == days + 657379
        yoe4 == z \div 1461
        doe == z % 1461
        yy == (doe - doe \div 1460) \div 365
        y == 4 * yoe4 + yy
        doy == doe - 365 * yy
        mp == (5 * doy + 2) \div 153
        d == doy - ((153 * mp + 2) \div 5) + 1
        m == IF mp < 10 THEN mp + 3 ELSE mp - 9
    IN <<y + (IF m <= 2 THEN 1 ELSE 0), m, d>>

\* netCDF4.num2date(days, 'days since 1800-1-1 00:00:00'): the Gregorian
\* calendar date, computed from the day count in 400-year eras that start
\* on a March 1 (1800-1-1 is day 657377 after 0000-3-1).
Num2Date(days) ==
    LET z == days + 657377
        era == z \div 146097
        doe == z - era * 146097
        yoe == (doe - (doe \div 1460) + (doe \div 36524) - (doe \div 146096)) \div 365
        y == yoe + era * 400
        doy == doe - (365 * yoe + (yoe \div 4) - (yoe \div 100))
        mp == (5 * doy + 2) \div 153
        d == doy - ((153 * mp + 2) \div 5) + 1
        m == IF mp < 10 THEN mp + 3 ELSE mp - 9
    IN <<y + (IF m <= 2 THEN 1 ELSE 0), m, d>>

\* nc['time'][:]: one value per calendar month (time:delta_t), the first of
\* each month from January 1854 on, in days since 1800-1-1.
TimeValues ==
    [i \in 0 .. NTime - 1 |-> Date2Num(<<1854 + (i \div 12), 1 + (i % 12), 1>>)]

\* time = netCDF4.num2date(nc['time'][:], nc['time'].units)
TimeDates == [i \in 0 .. NTime - 1 |-> Num2Date(TimeValues[i])]

\* A plausible slip: the comparison ignores the day of the month.
WhereSameMonth(d) ==
    { i \in 0 .. NTime - 1 : TimeDates[i][1] = d[1] /\ TimeDates[i][2] = d[2] }

\* np.where(time == date)[0]
Where(d) == { i \in 0 .. NTime - 1 : TimeDates[i] = d }

Min(S) == CHOOSE x \in S : \A y \in S : x <= y
Abs(x) == IF x < 0 THEN -x ELSE x

\* method='pad': the last step at or before the date (-1 when there is
\* none), found as np.searchsorted(side='right') - 1 on the sorted axis.
PadIndex(d) ==
    LET t == Date2Num(d)
    IN Cardinality({ i \in 0 .. NTime - 1 : TimeValues[i] <= t }) - 1

\* method='backfill': the first step at or after the date (-1 when there is
\* none), found as np.searchsorted(side='left') on the sorted axis.
BackfillIndex(d) ==
    LET t == Date2Num(d)
        k == Cardinality({ i \in 0 .. NTime - 1 : TimeValues[i] < t })
    IN IF k = NTime THEN -1 ELSE k

\* A plausible slip: method='pad' in place of method='nearest'.
NearestAsPad(d) == PadIndex(d)

\* .sel(time=date, method='nearest'): of the steps around the date, the
\* closer one; the later one when both are as close.
Nearest(d) ==
    LET l == PadIndex(d)
        r == BackfillIndex(d)
        t == Date2Num(d)
    IN IF r = -1 THEN l
       ELSE IF l = -1 THEN r
       ELSE IF t - TimeValues[l] < TimeValues[r] - t THEN l ELSE r

DateYears == 1952 .. 1952 + MaxYears - 1

Dates ==
    { <<y, m, d>> : y \in DateYears, m \in 1 .. 12, d \in 1 .. 31 } \cap
    { x \in DateYears \X (1 .. 12) \X (1 .. 31) : x[3] <= DaysInMonth(x[1], x[2]) }

SstIdle ==
    /\ spc = "off"
    /\ date = <<0, 0, 0>>
    /\ lon = NoArray
    /\ lat = NoArray
    /\ sst = NoArray
    /\ tindSet = {}
    /\ tind = -1
    /\ sel = -1

SstInit ==
    /\ spc = "extract"
    /\ date \in Dates
    /\ lon = NoArray
    /\ lat = NoArray
    /\ sst = NoArray
    /\ tindSet = {}
    /\ tind = -1
    /\ sel = -1

\* Lines 246-248: lon, lat and the first time slice of sst.
ExtractArrays ==
    /\ spc = "extract"
    /\ lon' = GetItem(VarShape("lon"), <<All>>)
    /\ lat' = GetItem(VarShape("lat"), <<All>>)
    /\ sst' = GetItem(VarShape("sst"), <<At(0)>>)
    /\ spc' = "search"
    /\ UNCHANGED <<date, tindSet, tind, sel>>
    /\ UNCHANGED notSst

\* Lines 602-640 and 684-685: convert the time axis and search it for the date.
ExactSearch ==
    /\ spc = "search"
    /\ LET found == Where(date) IN
          /\ tindSet' = found
          /\ tind' = IF found = {} THEN -1 ELSE Min(found)
    /\ spc' = "plot"
    /\ UNCHANGED <<date, lon, lat, sst, sel>>
    /\ UNCHANGED notSst

\* Line 664: the plot of nc['sst'][tind], when the search found a step.
PlotAtTind ==
    /\ spc = "plot"
    /\ tind >= 0
    /\ sst' = GetItem(VarShape("sst"), <<At(tind)>>)
    /\ lon' = GetItem(VarShape("lon"), <<All>>)
    /\ lat' = GetItem(VarShape("lat"), <<All>>)
    /\ spc' = "nearest"
    /\ UNCHANGED <<date, tindSet, tind, sel>>
    /\ UNCHANGED notSst

\* Lines 684-694: the search found nothing, there is nothing to plot.
NothingToPlot ==
    /\ spc = "plot"
    /\ tind < 0
    /\ spc' = "nearest"
    /\ UNCHANGED <<date, lon, lat, sst, tindSet, tind, sel>>
    /\ UNCHANGED notSst

\* Lines 733, 770 and 788: the nearest selection with xarray.
SelNearest ==
    /\ spc = "nearest"
    /\ sel' = Nearest(date)
    /\ spc' = "end"
    /\ UNCHANGED <<date, lon, lat, sst, tindSet, tind>>
    /\ UNCHANGED notSst

SstNext ==
    \/ ExtractArrays
    \/ ExactSearch
    \/ PlotAtTind
    \/ NothingToPlot
    \/ SelNearest

(***************************************************************************)
(* The run of the two notebooks, top to bottom, one statement at a time.   *)
(* Each notebook has its own kernel; the two runs interleave.              *)
(***************************************************************************)

Notebooks == {"netcdf", "maps"}

\* The files of the repository the notebooks name.
SstFile == "../data/sst.mnmean.v4.nc"
FooFile == "output/foo.nc"
TestFile == "output/test.nc"
KmzFile == "../data/AtlanticHurricanes.kmz"
NpzFile == "../data/cascadia.npz"
RepoFiles == {SstFile, FooFile, TestFile, KmzFile, NpzFile}

\* The Natural Earth data cartopy keeps in its own data directory.
Ocean50m == "natural_earth/physical/50m_ocean"
Land10m == "natural_earth/physical/10m_land"
States50m == "natural_earth/cultural/50m_admin_1_states_provinces_shp"
CartopyFiles == {Ocean50m, Land10m, States50m}

Paths == RepoFiles \cup CartopyFiles

\* The datasets served over the network.
CpratUrl == "http://apdrc.soest.hawaii.edu/.../cprat"
GribUrl == "http://nomads.ncdc.noaa.gov/.../spllnl.gdas.2011030118.grb2"
Urls == {CpratUrl, GribUrl}

Names == {"nc", "nc_cprat", "ds", "d", "kmz", "kml"}
NoHandle == <<"", 0>>

\* The kinds of statement.
OpenStmt(line, name, path) ==
    [line |-> line, kind |-> "open", name |-> name, path |-> path, var |-> ""]
MetaStmt(line, name, var) ==
    [line |-> line, kind |-> "meta", name |-> name, path |-> "", var |-> var]
IndexStmt(line, name, var) ==
    [line |-> line, kind |-> "index", name |-> name, path |-> "", var |-> var]
FeatureStmt(line, path) ==
    [line |-> line, kind |-> "feature", name |-> "", path |-> path, var |-> ""]
OtherStmt(line) ==
    [line |-> line, kind |-> "other", name |-> "", path |-> "", var |-> ""]

\* The executed statements of the NetCDF notebook that touch a dataset, and
\* one entry for each group of statements that touch none (plots,
\* computations, the xarray selections on the open dataset).
NetcdfCells == <<
    OpenStmt(46, "nc", SstFile),
    MetaStmt(47, "nc", ""),
    MetaStmt(125, "nc", ""),
    MetaStmt(137, "nc", "lon"),
    MetaStmt(149, "nc", "lon"),
    MetaStmt(161, "nc", ""),
    MetaStmt(173, "nc", ""),
    MetaStmt(185, "nc", ""),
    MetaStmt(197, "nc", ""),
    MetaStmt(209, "nc", "sst"),
    IndexStmt(246, "nc", "lon"),
    IndexStmt(247, "nc", "lat"),
    IndexStmt(248, "nc", "sst"),
    IndexStmt(260, "nc", "time"),
    OtherStmt(271),
    OtherStmt(282),
    OpenStmt(311, "nc_cprat", CpratUrl),
    MetaStmt(322, "nc_cprat", "cprat"),
    IndexStmt(333, "nc_cprat", "time"),
    IndexStmt(344, "nc_cprat", "cprat"),
    IndexStmt(345, "nc_cprat", "lon"),
    IndexStmt(346, "nc_cprat", "lat"),
    MetaStmt(364, "nc_cprat", "cprat"),
    OtherStmt(407),
    OpenStmt(472, "nc", FooFile),
    MetaStmt(473, "nc", ""),
    OpenStmt(493, "nc", GribUrl),
    IndexStmt(494, "nc", "Specific_humidity"),
    IndexStmt(495, "nc", "lon"),
    IndexStmt(496, "nc", "lat"),
    IndexStmt(497, "nc", "time"),
    MetaStmt(506, "nc", "Specific_humidity"),
    OpenStmt(579, "nc", SstFile),
    MetaStmt(581, "nc", "sst"),
    IndexStmt(602, "nc", "time"),
    OtherStmt(640),
    IndexStmt(664, "nc", "lon"),
    IndexStmt(664, "nc", "lat"),
    IndexStmt(664, "nc", "sst"),
    OtherStmt(685),
    OpenStmt(733, "ds", SstFile),
    MetaStmt(734, "ds", ""),
    OtherStmt(770),
    IndexStmt(795, "nc", "lon"),
    IndexStmt(795, "nc", "lat"),
    OtherStmt(835),
    OtherStmt(854),
    OpenStmt(866, "d", TestFile),
    MetaStmt(867, "d", "")
>>

\* The same for the maps notebook.
MapsCells == <<
    OtherStmt(61),
    OtherStmt(130),
    OtherStmt(180),
    OtherStmt(243),
    OpenStmt(266, "d", NpzFile),
    IndexStmt(272, "d", "lon"),
    IndexStmt(272, "d", "lat"),
    IndexStmt(272, "d", "z"),
    OpenStmt(320, "kmz", KmzFile),
    OpenStmt(321, "kml", KmzFile),
    OtherStmt(323),
    OtherStmt(325),
    OtherStmt(359),
    OtherStmt(392),
    OtherStmt(447),
    OtherStmt(489),
    OtherStmt(513),
    FeatureStmt(520, Ocean50m),
    FeatureStmt(521, Land10m),
    FeatureStmt(601, States50m)
>>

Cells(nb) == IF nb = "netcdf" THEN NetcdfCells ELSE MapsCells

\* The statement notebook nb is about to run.
Current(nb) == Cells(nb)[pc[nb]]
AtKind(nb, kind) ==
    /\ status[nb] = "running"
    /\ pc[nb] <= Len(Cells(nb))
    /\ Current(nb).kind = kind

\* With the writer of lines 438-461 left in: mode 'w'.
WriterMode == "w"

\* netCDF4.Dataset(path), xr.open_dataset(path), np.load(path): the default
\* mode, read; ZipFile(path, 'r') and kmz.open(name, 'r') say so.
OpenMode == "r"

\* A plausible slip: binding the name anew closes the dataset it referred to.
AfterOpenReleasing(open, previous, h) == (open \ {previous}) \cup {h}

\* The open handles after an open: no statement closes the handle the name
\* referred to before.
AfterOpen(open, previous, h) == open \cup {h}

\* A plausible slip: looking a variable up reads its data.
LoadedByMetaEager(h, var) == IF var = "" THEN {} ELSE {<<h, var>>}

\* What a metadata query reads of the data: nothing.
LoadedByMeta(h, var) == {}

RunIdle ==
    /\ pc = [nb \in Notebooks |-> 1]
    /\ status = [nb \in Notebooks |-> "off"]
    /\ files = [p \in Paths |-> "absent"]
    /\ files0 = [p \in Paths |-> "absent"]
    /\ handles = {}
    /\ binding = [nb \in Notebooks |-> [x \in Names |-> NoHandle]]
    /\ loaded = {}

RunInit ==
    /\ pc = [nb \in Notebooks |-> 1]
    /\ status = [nb \in Notebooks |-> "running"]
    /\ files \in [Paths -> {"absent", "original"}]
    /\ files0 = files
    /\ handles = {}
    /\ binding = [nb \in Notebooks |-> [x \in Names |-> NoHandle]]
    /\ loaded = {}

Advance(nb) == pc' = [pc EXCEPT ![nb] = pc[nb] + 1]
Fail(nb) == status' = [status EXCEPT ![nb] = "failed"]

\* An open that succeeds: of a file that is there (mode 'r'), of any file
\* (mode 'w', which creates or truncates it), or of a reachable URL.
Open ==
    \E nb \in Notebooks :
       /\ AtKind(nb, "open")
       /\ LET st == Current(nb)
              h == <<nb, pc[nb]>>
          IN /\ \/ st.path \in Urls /\ files' = files
                \/ /\ st.path \in Paths
                   /\ OpenMode = "r"
                   /\ files[st.path] # "absent"
                   /\ files' = files
                \/ /\ st.path \in Paths
                   /\ OpenMode = "w"
                   /\ files' = [files EXCEPT ![st.path] = "written"]
             /\ handles' = AfterOpen(handles, binding[nb][st.name], h)
             /\ binding' = [binding EXCEPT ![nb][st.name] = h]
       /\ Advance(nb)
       /\ UNCHANGED <<status, files0, loaded>>
       /\ UNCHANGED notRun

\* An open that raises: the file is not there, or the server is not
\* reachable.  The run of the notebook stops at the failing cell.
OpenFails ==
    \E nb \in Notebooks :
       /\ AtKind(nb, "open")
       /\ LET st == Current(nb)
          IN \/ st.path \in Urls
             \/ st.path \in Paths /\ OpenMode = "r" /\ files[st.path] = "absent"
       /\ Fail(nb)
       /\ UNCHANGED <<pc, files, files0, handles, binding, loaded>>
       /\ UNCHANGED notRun

\* A metadata query: an attribute, a variable object, a dimension, its
\* length, the key lists, the printed representation.
MetaQuery ==
    \E nb \in Notebooks :
       /\ AtKind(nb, "meta")
       /\ loaded' = loaded \cup
                      LoadedByMeta(binding[nb][Current(nb).name], Current(nb).var)
       /\ Advance(nb)
       /\ UNCHANGED <<status, files, files0, handles, binding>>
       /\ UNCHANGED notRun

\* variable[...]: the data of the variable is read.
IndexVariable ==
    \E nb \in Notebooks :
       /\ AtKind(nb, "index")
       /\ loaded' = loaded \cup {<<binding[nb][Current(nb).name], Current(nb).var>>}
       /\ Advance(nb)
       /\ UNCHANGED <<status, files, files0, handles, binding>>
       /\ UNCHANGED notRun

\* Drawing a Natural Earth feature at 50m or 10m: cartopy uses the data in
\* its data directory, downloading it first when it is not there.
DrawFeature ==
    \E nb \in Notebooks :
       /\ AtKind(nb, "feature")
       /\ files' = [files EXCEPT ![Current(nb).path] =
                       IF @ = "absent" THEN "written" ELSE @]
       /\ Advance(nb)
       /\ UNCHANGED <<status, files0, handles, binding, loaded>>
       /\ UNCHANGED notRun

\* The download fails.
DownloadFails ==
    \E nb \in Notebooks :
       /\ AtKind(nb, "feature")
       /\ files[Current(nb).path] = "absent"
       /\ Fail(nb)
       /\ UNCHANGED <<pc, files, files0, handles, binding, loaded>>
       /\ UNCHANGED notRun

\* Statements that touch no dataset, handle or file.
OtherStatement ==
    \E nb \in Notebooks :
       /\ AtKind(nb, "other")
       /\ Advance(nb)
       /\ UNCHANGED <<status, files, files0, handles, binding, loaded>>
       /\ UNCHANGED notRun

\* The last cell has run.
Finish ==
    \E nb \in Notebooks :
       /\ status[nb] = "running"
       /\ pc[nb] = Len(Cells(nb)) + 1
       /\ status' = [status EXCEPT ![nb] = "finished"]
       /\ UNCHANGED <<pc, files, files0, handles, binding, loaded>>
       /\ UNCHANGED notRun

RunNext ==
    \/ Open
    \/ OpenFails
    \/ MetaQuery
    \/ IndexVariable
    \/ DrawFeature
    \/ DownloadFails
    \/ OtherStatement
    \/ Finish

(***************************************************************************)
(* The Mercator map and the coordinates of College Station.                *)
(***************************************************************************)

\* Decimal degrees are kept exactly, as integer multiples of 1/3600 degree
\* (arcseconds): d + m/60 + s/3600 degrees is d*3600 + m*60 + s of them.
PerDegree == 3600

\* College Station: 30 deg 36 min 05 sec N, 96 deg 18 min 52 sec W.
CollegeStation ==
    [lat |-> <<30, 36, 5>>, lon |-> <<96, 18, 52>>]

\* The positions tried: degrees within MaxDegreeOffset of College Station's,
\* minutes and seconds from the ones of College Station and the extremes.
MaxDegreeOffset == 1
Around(d) == d - MaxDegreeOffset .. d + MaxDegreeOffset
Positions ==
    { [lat |-> <<d1, m1, s1>>, lon |-> <<d2, m2, s2>>] :
        d1 \in Around(30), m1 \in {0, 36, 59}, s1 \in {0, 5, 59},
        d2 \in Around(96), m2 \in {0, 18, 59}, s2 \in {0, 52, 59} }

\* A plausible slip: the seconds divided by 60, like the minutes.
DecimalDegreesSecondsAsMinutes(x) == x[1] * PerDegree + x[2] * 60 + x[3] * 60

\* d + m/60.0 + s/3600.0
DecimalDegrees(x) == x[1] * PerDegree + x[2] * 60 + x[3]

\* ax.set_extent([-100, -70, 15, 35], ccrs.PlateCarree()): west, east,
\* south, north in degrees.
MapExtent ==
    <<-100 * PerDegree, -70 * PerDegree, 15 * PerDegree, 35 * PerDegree>>

NoExtent == <<>>

\* The point (x, y) is within the extent e.
Inside(x, y, e) == e[1] <= x /\ x <= e[2] /\ e[3] <= y /\ y <= e[4]

CoordsIdle ==
    /\ cpc = "off"
    /\ dms = CollegeStation
    /\ extent = NoExtent
    /\ lat_cll = 0
    /\ lon_cll = 0

CoordsInit ==
    /\ cpc = "map"
    /\ dms \in Positions
    /\ extent = NoExtent
    /\ lat_cll = 0
    /\ lon_cll = 0

\* Line 187: the extent of the Mercator map the point is to be plotted on.
SetExtent ==
    /\ cpc = "map"
    /\ extent' = MapExtent
    /\ cpc' = "lat"
    /\ UNCHANGED <<dms, lat_cll, lon_cll>>
    /\ UNCHANGED notCoords

\* Line 243: lat_cll = 30.0 + 36.0/60.0 + 5.0/3600.0
ConvertLat ==
    /\ cpc = "lat"
    /\ lat_cll' = DecimalDegrees(dms.lat)
    /\ cpc' = "lon"
    /\ UNCHANGED <<dms, extent, lon_cll>>
    /\ UNCHANGED notCoords

\* Line 244: lon_cll = -(96.0 + 18.0/60.0 + 52.0/3600.0)
ConvertLon ==
    /\ cpc = "lon"
    /\ lon_cll' = -DecimalDegrees(dms.lon)
    /\ cpc' = "end"
    /\ UNCHANGED <<dms, extent, lat_cll>>
    /\ UNCHANGED notCoords

CoordsNext == SetExtent \/ ConvertLat \/ ConvertLon

(***************************************************************************)
(* The writer of output/foo.nc, as written in the comment of lines 436-461.*)
(***************************************************************************)

DimNames == {"x", "y", "time"}
VarNames == {"f", "x", "y", "time"}

NoDim == [created |-> FALSE]
NoVar == [created |-> FALSE]
NoData == <<>>

\* The arrays of the cell that the writer stores, as their shapes.
\* ygrid, xgrid = np.mgrid[0:1:60j, 0:1:50j]; fgrid = np.ma.empty((Ntimes, 60,
\* 50), 'd'); time = np.arange(Ntimes).
GridShape == <<GridRows, GridCols>>
FgridShape == <<Ntimes, 60, 50>>
TimeShape == <<Ntimes>>

\* The statements, in the order they are written.
OpenW(l) == [op |-> "open", line |-> l]
SetAttr(l) == [op |-> "attr", line |-> l]
Dimension(l, name, size) ==
    [op |-> "dim", line |-> l, name |-> name, size |-> size,
     unlimited |-> FALSE]
Unlimited(l, name) ==
    [op |-> "dim", line |-> l, name |-> name, size |-> 0, unlimited |-> TRUE]
Variable(l, name, dims) ==
    [op |-> "var", line |-> l, name |-> name, dims |-> dims]
Data(l, name, shape) ==
    [op |-> "data", line |-> l, name |-> name, shape |-> shape]
Units(l, name, text) ==
    [op |-> "units", line |-> l, name |-> name, text |-> text]
CloseW(l) == [op |-> "close", line |-> l]

\* A plausible slip: f is created before the time dimension it uses.
WriterStmtsVariableEarly ==
    << OpenW(438),
       SetAttr(439),
       Dimension(441, "x", 50),
       Dimension(442, "y", 60),
       Variable(445, "f", <<"time", "y", "x">>),
       Unlimited(443, "time"),
       Data(446, "f", FgridShape),
       Units(447, "f", "meters sec-1"),
       Variable(449, "x", <<"x">>),
       Data(450, "x", GetItem(GridShape, <<At(0), All>>).shape),
       Units(451, "x", "meters"),
       Variable(453, "y", <<"y">>),
       Data(454, "y", GetItem(GridShape, <<All, At(0)>>).shape),
       Units(455, "y", "meters"),
       Variable(457, "time", <<"time">>),
       Data(458, "time", TimeShape),
       Units(459, "time", "seconds"),
       CloseW(461) >>

WriterStmts ==
    << OpenW(438),
       SetAttr(439),
       Dimension(441, "x", 50),
       Dimension(442, "y", 60),
       Unlimited(443, "time"),
       Variable(445, "f", <<"time", "y", "x">>),
       Data(446, "f", FgridShape),
       Units(447, "f", "meters sec-1"),
       Variable(449, "x", <<"x">>),
       Data(450, "x", GetItem(GridShape, <<At(0), All>>).shape),
       Units(451, "x", "meters"),
       Variable(453, "y", <<"y">>),
       Data(454, "y", GetItem(GridShape, <<All, At(0)>>).shape),
       Units(455, "y", "meters"),
       Variable(457, "time", <<"time">>),
       Data(458, "time", TimeShape),
       Units(459, "time", "seconds"),
       CloseW(461) >>

WStmt == WriterStmts[wpc]
WAt(op) == wpc \in 1 .. Len(WriterStmts) /\ WStmt.op = op

\* variable[:] = data fits: as many axes as the variable has dimensions,
\* and along each dimension of fixed size exactly that size.
Fits(shape, dims) ==
    /\ Len(shape) = Len(dims)
    /\ \A k \in 1 .. Len(dims) :
          /\ wdims[dims[k]].created
          /\ wdims[dims[k]].unlimited \/ wdims[dims[k]].size = shape[k]

\* The dimensions after variable[:] = data: an unlimited dimension grows to
\* the length of the data along it.
Grown(shape, dims) ==
    [d \in DimNames |->
        IF \E k \in 1 .. Len(dims) :
              dims[k] = d /\ wdims[d].unlimited /\ wdims[d].size < shape[k]
        THEN [wdims[d] EXCEPT
                 !.size = shape[CHOOSE k \in 1 .. Len(dims) : dims[k] = d]]
        ELSE wdims[d]]

WriterIdle ==
    /\ wpc = 0
    /\ wopen = FALSE
    /\ wdims = [d \in DimNames |-> NoDim]
    /\ wvars = [v \in VarNames |-> NoVar]
    /\ wlog = <<>>

\* The statement done: the next one, with this one in the history.
WDone ==
    /\ wpc' = wpc + 1
    /\ wlog' = Append(wlog, WStmt)

\* The statement raises: the cell stops.
WRaise ==
    /\ wpc' = -1
    /\ UNCHANGED <<wopen, wdims, wvars, wlog>>

\* Line 436: the loop has ended normally and the writer begins.
WriterBegin ==
    /\ ipc = "done"
    /\ wpc = 0
    /\ wpc' = 1
    /\ UNCHANGED <<wopen, wdims, wvars, wlog>>
    /\ UNCHANGED notWriter

\* Line 438: nc = netCDF4.Dataset('output/foo.nc', 'w')
WriterOpen ==
    /\ WAt("open")
    /\ wopen' = TRUE
    /\ wdims' = [d \in DimNames |-> NoDim]
    /\ wvars' = [v \in VarNames |-> NoVar]
    /\ WDone
    /\ UNCHANGED notWriter

\* Line 439: nc.author = 'Me'
WriterSetAuthor ==
    /\ WAt("attr")
    /\ IF wopen
       THEN WDone /\ UNCHANGED <<wopen, wdims, wvars>>
       ELSE WRaise
    /\ UNCHANGED notWriter

\* Lines 441-443: nc.createDimension(name, size)
CreateDimension ==
    /\ WAt("dim")
    /\ IF wopen /\ ~wdims[WStmt.name].created
       THEN /\ wdims' = [wdims EXCEPT ![WStmt.name] =
                            [created |-> TRUE, size |-> WStmt.size,
                             unlimited |-> WStmt.unlimited]]
            /\ WDone
            /\ UNCHANGED <<wopen, wvars>>
       ELSE WRaise
    /\ UNCHANGED notWriter

\* Lines 445, 449, 453, 457: nc.createVariable(name, 'd', dims)
CreateVariable ==
    /\ WAt("var")
    /\ IF /\ wopen
          /\ ~wvars[WStmt.name].created
          /\ \A k \in 1 .. Len(WStmt.dims) : wdims[WStmt.dims[k]].created
       THEN /\ wvars' = [wvars EXCEPT ![WStmt.name] =
                            [created |-> TRUE, dims |-> WStmt.dims,
                             data |-> NoData, units |-> ""]]
            /\ WDone
            /\ UNCHANGED <<wopen, wdims>>
       ELSE WRaise
    /\ UNCHANGED notWriter

\* Lines 446, 450, 454, 458: nc.variables[name][:] = data
AssignData ==
    /\ WAt("data")
    /\ IF /\ wopen
          /\ wvars[WStmt.name].created
          /\ Fits(WStmt.shape, wvars[WStmt.name].dims)
       THEN /\ wvars' = [wvars EXCEPT ![WStmt.name].data = WStmt.shape]
            /\ wdims' = Grown(WStmt.shape, wvars[WStmt.name].dims)
            /\ WDone
            /\ UNCHANGED wopen
       ELSE WRaise
    /\ UNCHANGED notWriter

\* Lines 447, 451, 455, 459: nc.variables[name].units = text
SetUnits ==
    /\ WAt("units")
    /\ IF wopen /\ wvars[WStmt.name].created
       THEN /\ wvars' = [wvars EXCEPT ![WStmt.name].units = WStmt.text]
            /\ WDone
            /\ UNCHANGED <<wopen, wdims>>
       ELSE WRaise
    /\ UNCHANGED notWriter

\* Line 461: nc.close()
WriterClose ==
    /\ WAt("close")
    /\ IF wopen
       THEN WDone /\ wopen' = FALSE /\ UNCHANGED <<wdims, wvars>>
       ELSE WRaise
    /\ UNCHANGED notWriter

WriterNext ==
    \/ WriterBegin
    \/ WriterOpen
    \/ WriterSetAuthor
    \/ CreateDimension
    \/ CreateVariable
    \/ AssignData
    \/ SetUnits
    \/ WriterClose

(***************************************************************************)
(* The specifications.                                                     *)
(***************************************************************************)

InitInterp == InterpInit /\ TracksIdle /\ SstIdle /\ RunIdle /\ CoordsIdle
    /\ WriterIdle
SpecInterp == InitInterp /\ [][InterpNext]_vars

InitTracks == TracksInit /\ InterpIdle /\ SstIdle /\ RunIdle /\ CoordsIdle
    /\ WriterIdle
SpecTracks == InitTracks /\ [][TracksNext]_vars

\* The interpreter keeps executing the cell while it has a next step.
SpecTracksFair == SpecTracks /\ WF_vars(TracksNext)

InitSst == SstInit /\ InterpIdle /\ TracksIdle /\ RunIdle /\ CoordsIdle
    /\ WriterIdle
SpecSst == InitSst /\ [][SstNext]_vars

InitRun == RunInit /\ InterpIdle /\ TracksIdle /\ SstIdle /\ CoordsIdle
    /\ WriterIdle
SpecRun == InitRun /\ [][RunNext]_vars

InitCoords == CoordsInit /\ InterpIdle /\ TracksIdle /\ SstIdle /\ RunIdle
    /\ WriterIdle
SpecCoords == InitCoords /\ [][CoordsNext]_vars

\* The interpolation cell with its writer: lines 407-461 as written.
InitWriter ==
    InterpInit /\ WriterIdle /\ TracksIdle /\ SstIdle /\ RunIdle /\ CoordsIdle
WriterCellNext ==
    \/ Inject
    \/ InterpStep
    \/ InterpRaise
    \/ InterpExit
    \/ WriterNext
SpecWriter == InitWriter /\ [][WriterCellNext]_vars

(***************************************************************************)
(* Claims about the interpolation cell.                                    *)
(***************************************************************************)

\* The non-missing points of time step t, read off fdata directly.
NonMissing(t) == { p \in Points : fdata[t][p] = FALSE }

\* C1: the loop visits n = 0, 1, ... in ascending order, each once; every
\* slice it stores is built from exactly the non-missing points of its step
\* and has the 60x50 shape of the grid; it is stored in fgrid[n]; when the
\* loop ends every slice of fgrid has been assigned.
C1_InterpolationLoop ==
    /\ \A i \in 1 .. Len(visited) : visited[i] = i - 1
    /\ \A t \in Times :
          fgrid[t].assigned =>
             /\ t < n
             /\ fgrid[t].points = NonMissing(t)
             /\ fgrid[t].shape = <<60, 50>>
    /\ \A t \in Times : t < n => fgrid[t].assigned
    /\ ipc = "done" =>
          /\ \A t \in Times : fgrid[t].assigned
          /\ visited = [i \in 1 .. Ntimes |-> i - 1]

\* C1 witness: the loop has ended and some slice was built with a missing
\* point left out.
C1_Witness ==
    /\ ipc = "done"
    /\ \E t \in Times : fgrid[t].assigned /\ fgrid[t].points # Points

\* C3: a failure at step n stops the loop there: the slices before n are
\* assigned, slice n and the later ones never are, no later step is
\* attempted, and a visited step whose slice is unassigned is the one that
\* raised.
C3_NoErrorHandling ==
    /\ \A i \in 1 .. Len(visited) :
          ~fgrid[visited[i]].assigned =>
             /\ i = Len(visited)
             /\ ipc = "raised"
             /\ n = visited[i]
    /\ ipc = "raised" =>
          /\ \A t \in Times : t < n => fgrid[t].assigned
          /\ \A t \in Times : t >= n => ~fgrid[t].assigned
          /\ Len(visited) = n + 1
          /\ visited[Len(visited)] = n

\* C3 witness: the loop raised at a middle step, after storing a slice and
\* with a later slice left.
C3_Witness ==
    /\ ipc = "raised"
    /\ n > 0
    /\ n < Ntimes - 1
    /\ fgrid[0].assigned
    /\ ~fgrid[Ntimes - 1].assigned

\* The flat positions of fdata that hold nan.
Missing == { p \in 0 .. FlatSize - 1 : fdata[FlatTime(p)][FlatPoint(p)] }

\* C11: the first Nbad entries of the shuffled idx are distinct flat
\* positions of fdata (a prefix of a permutation of 0 .. size-1); once the
\* injection is done the missing entries of fdata are exactly those
\* positions, so exactly Nbad entries are missing and exactly
\* Ntimes*Ndatapoints - Nbad are not, whatever the shuffle; with the sizes
\* of the cell that is 200 missing and 19800 not.
C11_InjectionCount ==
    /\ CellNbad = 200
    /\ CellNtimes * CellNdatapoints - CellNbad = 19800
    /\ ipc \in {"loop", "done", "raised"} =>
          /\ Len(idx) = Nbad
          /\ \A i \in 1 .. Nbad : idx[i] \in 0 .. FlatSize - 1
          /\ \A i, j \in 1 .. Nbad : i # j => idx[i] # idx[j]
          /\ Missing = { idx[i] : i \in 1 .. Nbad }
          /\ Cardinality(Missing) = Nbad
          /\ Cardinality((0 .. FlatSize - 1) \ Missing) = Ntimes * Ndatapoints - Nbad

\* C11 witness: the injection is done with a head of idx that is out of
\* order and hits one time step twice.
C11_Witness ==
    /\ ipc = "loop"
    /\ Len(idx) = Nbad
    /\ idx[1] > idx[2]
    /\ FlatTime(idx[1]) = FlatTime(idx[2])
    /\ Cardinality(Missing) = Nbad

(***************************************************************************)
(* Claims about the writer.                                                *)
(***************************************************************************)

\* The statements executed before position i of the history.
Earlier(i, op, name) ==
    \E j \in 1 .. i - 1 : wlog[j].op = op /\ wlog[j].name = name

WriterFinished == wpc = Len(WriterStmts) + 1

\* C18: in the writer as written no statement raises; every dimension is
\* created before a variable that uses it, every variable before its data
\* or units are assigned, and close is the last operation; the data of each
\* variable has the lengths of its dimensions: f(time, y, x) gets the shape
\* (Ntimes, 60, 50) of fgrid, x the 50 values of xgrid[0, :], y the 60
\* values of ygrid[:, 0], time its Ntimes values, with x = 50, y = 60 and
\* the unlimited time ending at length Ntimes (20 in the cell).
C18_WriterAsWritten ==
    /\ CellNtimes = 20
    /\ wpc # -1
    /\ \A i \in 1 .. Len(wlog) :
          /\ wlog[i].op = "var" =>
                \A k \in 1 .. Len(wlog[i].dims) : Earlier(i, "dim", wlog[i].dims[k])
          /\ wlog[i].op \in {"data", "units"} => Earlier(i, "var", wlog[i].name)
          /\ wlog[i].op = "close" => i = Len(wlog) /\ WriterFinished
    /\ WriterFinished =>
          /\ wlog[Len(wlog)].op = "close"
          /\ ~wopen
          /\ wdims["x"] = [created |-> TRUE, size |-> 50, unlimited |-> FALSE]
          /\ wdims["y"] = [created |-> TRUE, size |-> 60, unlimited |-> FALSE]
          /\ wdims["time"] = [created |-> TRUE, size |-> Ntimes, unlimited |-> TRUE]
          /\ wvars["f"].dims = <<"time", "y", "x">>
          /\ wvars["f"].data = <<Ntimes, 60, 50>>
          /\ wvars["x"].data = <<50>>
          /\ wvars["y"].data = <<60>>
          /\ wvars["time"].data = <<Ntimes>>
          /\ \A v \in VarNames :
                /\ wvars[v].created
                /\ wvars[v].units # ""
                /\ Len(wvars[v].data) = Len(wvars[v].dims)
                /\ \A k \in 1 .. Len(wvars[v].dims) :
                      wvars[v].data[k] = wdims[wvars[v].dims[k]].size

\* C18 witness: the writer has run to its close after a loop that stored
\* every slice, and the time dimension has grown to Ntimes.
C18_Witness ==
    /\ ipc = "done"
    /\ WriterFinished
    /\ ~wopen
    /\ Len(wlog) = Len(WriterStmts)
    /\ wdims["time"].size = Ntimes
    /\ wvars["f"].data = <<Ntimes, 60, 50>>

(***************************************************************************)
(* Claims about the coordinates of College Station.                        *)
(***************************************************************************)

\* C12: lat_cll and lon_cll are degrees + minutes/60 + seconds/3600 of the
\* given position, the north latitude positive and the west longitude
\* negative, each within its degree; for College Station (30 deg 36 min
\* 05 sec N, 96 deg 18 min 52 sec W) that is 110165 arcseconds north and
\* 346732 arcseconds west, a point inside the extent [-100, -70] x [15, 35]
\* of the map.
C12_CollegeStation ==
    cpc = "end" =>
        /\ extent = <<-360000, -252000, 54000, 126000>>
        /\ lat_cll > 0 /\ lon_cll < 0
        /\ 3600 * dms.lat[1] <= lat_cll /\ lat_cll < 3600 * (dms.lat[1] + 1)
        /\ 3600 * dms.lon[1] <= -lon_cll /\ -lon_cll < 3600 * (dms.lon[1] + 1)
        /\ (lat_cll - 3600 * dms.lat[1]) \div 60 = dms.lat[2]
        /\ (lat_cll - 3600 * dms.lat[1]) % 60 = dms.lat[3]
        /\ (-lon_cll - 3600 * dms.lon[1]) \div 60 = dms.lon[2]
        /\ (-lon_cll - 3600 * dms.lon[1]) % 60 = dms.lon[3]
        /\ dms = [lat |-> <<30, 36, 5>>, lon |-> <<96, 18, 52>>] =>
              /\ lat_cll = 110165
              /\ lon_cll = -346732
              /\ Inside(lon_cll, lat_cll, extent)

\* C12 witness: both coordinates of College Station have been computed and
\* the extent of the map has been set.
C12_Witness ==
    /\ cpc = "end"
    /\ dms = [lat |-> <<30, 36, 5>>, lon |-> <<96, 18, 52>>]
    /\ lat_cll = 110165
    /\ lon_cll = -346732
    /\ extent # NoExtent

(***************************************************************************)
(* Claims about the hurricane-track cell.                                  *)
(***************************************************************************)

\* C2: a failure raised while iterating the storms of a decade is swallowed:
\* it never propagates (the only failure that leaves the cell is the one of
\* line 326, before any storm is iterated), the loop has moved on to a later
\* decade after every swallowed failure, a decade fails at most once, and the
\* loop ends only with every decade visited.
C2_FailuresSwallowed ==
    /\ \A i \in 1 .. Len(caught) :
          /\ caught[i].decade < decade
          /\ caught[i].decade < nDecades
          /\ \A j \in 1 .. Len(caught) : i < j => caught[i].decade < caught[j].decade
    /\ tpc = "propagated" => caught = <<>> /\ nDecades = -1 /\ decade = 0
    /\ tpc = "done" => decade = nDecades

\* C2 witness: the loop has ended after swallowing a missing LineString and
\* a ragged or empty coordinate text, and a later decade still gave a track.
C2_Witness ==
    /\ tpc = "done"
    /\ \E i, j \in 1 .. Len(caught) :
          /\ caught[i].error = "AttributeError" /\ caught[i].storm >= 0
          /\ caught[j].error = "IndexError"
    /\ \E i \in 1 .. Len(caught), k \in 1 .. Len(origin) :
          origin[k].decade > caught[i].decade

\* The positions in tracks of the tracks that storm s of decade d gave.
TracksOf(d, s) ==
    { k \in 1 .. Len(origin) : origin[k].decade = d /\ origin[k].storm = s }

\* The decades in which a storm failed, and the decades left behind.
FailedDecades == { caught[i].decade : i \in 1 .. Len(caught) }
DecadesLeft == { heads[i].decade : i \in 1 .. Len(heads) } \ {decade}

\* C13: when storm s of a decade fails, the tracks of storms 0..s-1 of that
\* decade are in tracks, storm s and the later storms of that decade gave no
\* track and were never attempted (the decade has that one failure only);
\* every track is still the one that was appended (a failure removed or
\* changed none); and a decade in which no storm failed is processed in
\* full, wherever it comes after failures: each of its storms gave a track.
C13_PartialDecade ==
    /\ Len(tracks) = Len(origin)
    /\ \A k \in 1 .. Len(tracks) : tracks[k] = SliceTwoColumns(origin[k].text)
    /\ \A i \in 1 .. Len(caught) :
          LET d == caught[i].decade
              s == caught[i].storm
          IN /\ \A r \in 0 .. s - 1 : TracksOf(d, r) # {}
             /\ \A k \in 1 .. Len(origin) :
                   origin[k].decade = d => origin[k].storm < s
             /\ \A j \in 1 .. Len(caught) : caught[j].decade = d => j = i
             /\ decade > d
    /\ \A i \in 1 .. Len(heads) :
          (heads[i].decade \in DecadesLeft \ FailedDecades) =>
             \A r \in 0 .. heads[i].storms - 1 : TracksOf(heads[i].decade, r) # {}
    /\ tpc = "done" => DecadesLeft = 0 .. nDecades - 1

\* C13 witness: the second storm of the first decade failed after the first
\* gave a track, and the next decade was entered and gave a track for each
\* of its storms.
C13_Witness ==
    /\ tpc = "done"
    /\ \E i \in 1 .. Len(caught) : caught[i].decade = 0 /\ caught[i].storm = 1
    /\ TracksOf(0, 0) # {}
    /\ TracksOf(0, 1) = {}
    /\ Len(heads) = 2
    /\ \A r \in 0 .. heads[2].storms - 1 : TracksOf(1, r) # {}

\* The placemarks of the decades entered so far, in total.
RECURSIVE PlacemarksUpTo(_)
PlacemarksUpTo(i) ==
    IF i = 0 THEN 0 ELSE heads[i].storms + PlacemarksUpTo(i - 1)

\* The tracks are in ascending (decade, storm) order, one per storm at most.
TracksAscending ==
    /\ Len(origin) = Len(tracks)
    /\ \A k, l \in 1 .. Len(origin) :
          k < l =>
             \/ origin[k].decade < origin[l].decade
             \/ /\ origin[k].decade = origin[l].decade
                /\ origin[k].storm < origin[l].storm
    /\ \A d \in 0 .. MaxDecades, r \in 0 .. MaxStorms :
          Cardinality(TracksOf(d, r)) <= 1

\* C14: tracks changes only by one track appended at its end; at every
\* point of the loop and after it the tracks are in ascending (decade,
\* storm) order, one per storm at most; and when the loop has ended without
\* any failure the number of tracks is the total number of placemarks of
\* all the decades.
C14_TracksOrder ==
    /\ [](TracksAscending)
    /\ []((tpc = "done" /\ caught = <<>>) =>
             /\ Len(heads) = nDecades
             /\ Len(tracks) = PlacemarksUpTo(Len(heads)))
    /\ [][ \/ tracks' = tracks
           \/ /\ Len(tracks') = Len(tracks) + 1
              /\ SubSeq(tracks', 1, Len(tracks)) = tracks ]_vars

\* C14 witness: the loop has ended without a failure over two decades,
\* with one track for each of their placemarks.
C14_Witness ==
    /\ tpc = "done"
    /\ caught = <<>>
    /\ Len(heads) = 2
    /\ PlacemarksUpTo(2) = 2
    /\ Len(tracks) = 2
    /\ origin[1].decade = 0
    /\ origin[2].decade = 1

\* C15: a track appended for a storm has one row per location of the
\* storm's coordinate text, in the text's order, and each row has exactly
\* two columns, the first two components (longitude, latitude) of its
\* location in that order, a third component being dropped.
C15_TrackRowsAndColumns ==
    \A k \in 1 .. Len(tracks) :
        LET text == origin[k].text IN
        /\ Len(tracks[k]) = Len(text)
        /\ \A i \in 1 .. Len(text) :
              /\ Len(tracks[k][i]) = 2
              /\ Len(text[i]) >= 2
              /\ tracks[k][i][1] = text[i][1]
              /\ tracks[k][i][2] = text[i][2]

\* The failures on a placemark whose coordinate text has no location.
EmptyRecords ==
    { i \in 1 .. Len(caught) :
        caught[i].storm >= 0 /\ caught[i].locations = 0 }

\* C16: a storm whose coordinate text has no location gives a 1-D array and
\* the slice with two indices fails on it (IndexError): no track without
\* rows is ever in tracks and no track comes from an empty text; the
\* failure is swallowed (the loop is at a later decade), and that storm and
\* the later storms of its decade gave no track.
C16_EmptyRecord ==
    /\ \A k \in 1 .. Len(tracks) : Len(tracks[k]) >= 1 /\ Len(origin[k].text) >= 1
    /\ \A i \in EmptyRecords :
          /\ caught[i].error = "IndexError"
          /\ tpc # "propagated"
          /\ decade > caught[i].decade
          /\ \A r \in caught[i].storm .. MaxStorms :
                TracksOf(caught[i].decade, r) = {}
          /\ \A j \in 1 .. Len(caught) :
                caught[j].decade = caught[i].decade => j = i

\* C16 witness: the first of the two storms of a decade had an empty text;
\* the loop has ended, with no track of that decade and a track of another.
C16_Witness ==
    /\ tpc = "done"
    /\ tracks # <<>>
    /\ \E i \in EmptyRecords :
          /\ caught[i].storm = 0
          /\ \E h \in 1 .. Len(heads) :
                heads[h].decade = caught[i].decade /\ heads[h].storms = 2
          /\ \A k \in 1 .. Len(origin) : origin[k].decade # caught[i].decade

\* C17: for every input within the bounds the loop enters the decades
\* 0, 1, 2, ... in ascending order, each once, whatever storms fail, and it
\* terminates: it ends with every decade entered, unless line 326, which is
\* outside the try, raises; the failures that are suppressed are all raised
\* inside the try, the lookup of the decade at line 327 is not among them
\* and the only failure that leaves the cell is the one of line 326.
C17_Termination ==
    /\ [](\A i \in 1 .. Len(heads) : heads[i].decade = i - 1)
    /\ [](tpc = "done" => Len(heads) = nDecades /\ decade = nDecades)
    /\ [](tpc = "propagated" => nDecades = -1 /\ heads = <<>> /\ caught = <<>>)
    /\ [](\A i \in 1 .. Len(caught) :
             \E h \in 1 .. Len(heads) : heads[h].decade = caught[i].decade)
    /\ <>(tpc = IF nDecades >= 0 THEN "done" ELSE "propagated")

\* C17 witness: the loop has ended after entering every decade of the
\* largest input, with a storm failure and a missing Placemark on the way.
C17_Witness ==
    /\ tpc = "done"
    /\ nDecades = MaxDecades
    /\ Len(heads) = MaxDecades
    /\ \E i, j \in 1 .. Len(caught) : caught[i].storm >= 0 /\ caught[j].storm = -1

(***************************************************************************)
(* Claims about the SST file.                                              *)
(***************************************************************************)

Searched == spc \in {"plot", "nearest", "end"}

\* C6: on the monthly axis (first step 19723 days since 1800-1-1, i.e.
\* January 1, 1854, last step 78923, 0-based indices) the exact search for
\* May 1, 1954 finds exactly one step and tind is 1204; more generally the
\* first of a month is found at exactly one index, its month count from
\* January 1854.
C6_ExactTimeSearch ==
    /\ TimeValues[0] = 19723
    /\ TimeValues[1945] = 78923
    /\ Searched =>
          /\ date = <<1954, 5, 1>> => tindSet = {1204} /\ tind = 1204
          /\ date[3] = 1 =>
                /\ tindSet = {12 * (date[1] - 1854) + date[2] - 1}
                /\ tind = 12 * (date[1] - 1854) + date[2] - 1
                /\ TimeValues[tind] = Date2Num(date)

\* C6 witness: May 1, 1954 has been searched for and found at 1204.
C6_Witness ==
    /\ Searched
    /\ date = <<1954, 5, 1>>
    /\ tind = 1204

\* C7: the exact search for a date that is not the first of a month (such
\* as May 23, 1954) gives an empty index set: no time step is at that date.
C7_ExactSearchEmpty ==
    (Searched /\ date[3] # 1) =>
        /\ tindSet = {}
        /\ tind = -1
        /\ LET t == Date2Num(date) IN \A i \in 0 .. 1945 : TimeValues[i] # t

\* C7 witness: May 23, 1954 has been searched for, with an empty result.
C7_Witness ==
    /\ Searched
    /\ date = <<1954, 5, 23>>
    /\ tindSet = {}

\* C8: the nearest selection returns one time step of the file and no other
\* step is strictly closer to the requested date; for May 23, 1954 it
\* succeeds (June 1, 1954, index 1205) where the exact search found nothing.
C8_NearestSelection ==
    spc = "end" =>
        /\ sel \in 0 .. 1945
        /\ LET t == Date2Num(date)
                best == Abs(TimeValues[sel] - t)
           IN \A i \in 0 .. 1945 : Abs(TimeValues[i] - t) >= best
        /\ date = <<1954, 5, 23>> => tindSet = {} /\ sel = 1205

\* C8 witness: May 23, 1954 was not found by the exact search and the
\* nearest selection has returned a step.
C8_Witness ==
    /\ spc = "end"
    /\ date = <<1954, 5, 23>>
    /\ tindSet = {}
    /\ sel = 1205

\* C9: indexing sst(time, lat, lon) with one integer gives the same array
\* as indexing it with that integer and two full slices: the 2-D time slice
\* of shape (89, 180), the lengths of the extracted lat and lon; sst[0] is
\* the first slice of the series.
C9_SingleIndexIsSlice ==
    spc \notin {"off", "extract"} =>
        LET t == IF spc \in {"search", "plot"} THEN 0 ELSE
                 IF tind >= 0 THEN tind ELSE 0
        IN /\ sst = GetItem(<<1946, 89, 180>>, <<At(t), All, All>>)
           /\ sst.shape = <<89, 180>>
           /\ sst.shape = <<lat.shape[1], lon.shape[1]>>
           /\ sst.src = <<At(t), All, All>>
           /\ Elem(sst, <<1, 1>>) = <<t, 1, 1>>
           /\ Elem(sst, <<88, 179>>) = <<t, 88, 179>>

\* C9 witness: sst holds the first time slice, read with the single index 0.
C9_Witness ==
    /\ spc = "search"
    /\ sst.shape = <<89, 180>>
    /\ sst.src[1] = At(0)
    /\ lat.shape = <<89>>
    /\ lon.shape = <<180>>

(***************************************************************************)
(* Claims about the run of the notebooks.                                  *)
(***************************************************************************)

\* The open statements notebook nb has executed so far, as handles.
ExecutedOpens(nb) ==
    { <<nb, k>> : k \in { j \in 1 .. Len(Cells(nb)) :
                            j < pc[nb] /\ Cells(nb)[j].kind = "open" } }

\* The handle opened by the statement of notebook nb at a source line.
OpenedAt(nb, line) ==
    { <<nb, k>> : k \in { j \in 1 .. Len(Cells(nb)) :
                            Cells(nb)[j].kind = "open" /\ Cells(nb)[j].line = line } }

=============================================================================
